---- MODULE Spec2Model ----
(***************************************************************************)
(* Model of VideoSummaryAgent (ai_agent.py): the plan -> execute ->        *)
(* synthesize -> score -> refine loop, its session state (action log,      *)
(* task memory, analysis cache) and the heuristic quality scorer.          *)
(*                                                                         *)
(* Texts are TLA+ strings. Python floats are IEEE-754 binary64 values,     *)
(* modelled exactly: a double is [m, e] with value m * 2^e, the mantissa m *)
(* a natural number of at most 53 bits held as little-endian limbs, and    *)
(* every arithmetic operation rounds to nearest, ties to even.             *)
(***************************************************************************)
EXTENDS Integers, Sequences, FiniteSets, TLC

(***************************************************************************)
(* Bounds of the model.                                                    *)
(***************************************************************************)
MaxHistory == 3
MaxFrames == 1
MaxTicks == 1
MaxRequests == 2
MaxResets == 2
ManyFrames == 20

(***************************************************************************)
(* Python str operations used by the agent.                                *)
(***************************************************************************)
UpperAlpha == "ABCDEFGHIJKLMNOPQRSTUVWXYZ"
LowerAlpha == "abcdefghijklmnopqrstuvwxyz"

CharAt(s, i) == SubSeq(s, i, i)

\* the lower-case letter of every upper-case letter
LowerOf ==
    [c \in {CharAt(UpperAlpha, i) : i \in 1..Len(UpperAlpha)} |->
        CharAt(LowerAlpha, CHOOSE i \in 1..Len(UpperAlpha) : CharAt(UpperAlpha, i) = c)]

LowerChar(c) == IF c \in DOMAIN LowerOf THEN LowerOf[c] ELSE c

\* str.lower(), character by character (the text is split in halves so that
\* the evaluation depth stays logarithmic in the length)
RECURSIVE StrLower(_)
StrLower(s) ==
    IF Len(s) = 0 THEN s
    ELSE IF Len(s) = 1 THEN LowerChar(s)
    ELSE LET h == Len(s) \div 2
         IN  StrLower(SubSeq(s, 1, h)) \o StrLower(SubSeq(s, h + 1, Len(s)))

\* str.replace(old, new) for a one-character old
RECURSIVE StrReplaceChar(_, _, _)
StrReplaceChar(s, old, new) ==
    IF Len(s) = 0 THEN s
    ELSE IF Len(s) = 1 THEN (IF s = old THEN new ELSE s)
    ELSE LET h == Len(s) \div 2
         IN  StrReplaceChar(SubSeq(s, 1, h), old, new)
                 \o StrReplaceChar(SubSeq(s, h + 1, Len(s)), old, new)

\* str.find(sub, start): the least position >= start where sub occurs, 0 if none
StrFind(s, sub, start) ==
    LET hits == {i \in start..(Len(s) - Len(sub) + 1) :
                     SubSeq(s, i, i + Len(sub) - 1) = sub}
    IN  IF hits = {} THEN 0
        ELSE CHOOSE i \in hits : \A j \in hits : i <= j

\* `sub in s`
StrContains(sub, s) == StrFind(s, sub, 1) # 0

\* str.count(sub): the number of non-overlapping occurrences, left to right
RECURSIVE StrCountFrom(_, _, _)
StrCountFrom(s, sub, start) ==
    LET j == StrFind(s, sub, start)
    IN  IF j = 0 THEN 0 ELSE 1 + StrCountFrom(s, sub, j + Len(sub))

StrCount(s, sub) == StrCountFrom(s, sub, 1)

\* s * n
RECURSIVE StrRepeat(_, _)
StrRepeat(s, n) ==
    IF n <= 0 THEN ""
    ELSE IF n = 1 THEN s
    ELSE LET h == StrRepeat(s, n \div 2)
         IN  IF n % 2 = 0 THEN h \o h ELSE h \o h \o s

(***************************************************************************)
(* Natural numbers of arbitrary size: little-endian sequences of limbs in  *)
(* 0..LimbBase-1 without high zero limbs (the mantissas and the exact      *)
(* sums and products of doubles do not fit a machine integer of the model  *)
(* checker).                                                               *)
(***************************************************************************)
LimbBits == 15
LimbBase == 2^LimbBits

RECURSIVE BigNorm(_)
BigNorm(a) ==
    IF a = <<>> THEN <<>>
    ELSE IF a[Len(a)] = 0 THEN BigNorm(SubSeq(a, 1, Len(a) - 1))
    ELSE a

RECURSIVE BigFromInt(_)
BigFromInt(n) ==
    IF n = 0 THEN <<>> ELSE <<n % LimbBase>> \o BigFromInt(n \div LimbBase)

BigLimb(a, i) == IF i <= Len(a) THEN a[i] ELSE 0

RECURSIVE BigAddFrom(_, _, _, _)
BigAddFrom(a, b, i, carry) ==
    IF i > Len(a) /\ i > Len(b)
    THEN (IF carry = 0 THEN <<>> ELSE <<carry>>)
    ELSE LET t == BigLimb(a, i) + BigLimb(b, i) + carry
         IN  <<t % LimbBase>> \o BigAddFrom(a, b, i + 1, t \div LimbBase)

BigAdd(a, b) == BigAddFrom(a, b, 1, 0)

\* a - b for a >= b
RECURSIVE BigSubFrom(_, _, _, _)
BigSubFrom(a, b, i, borrow) ==
    IF i > Len(a) THEN <<>>
    ELSE LET t == BigLimb(a, i) - BigLimb(b, i) - borrow
         IN  IF t < 0
             THEN <<t + LimbBase>> \o BigSubFrom(a, b, i + 1, 1)
             ELSE <<t>> \o BigSubFrom(a, b, i + 1, 0)

BigSub(a, b) == BigNorm(BigSubFrom(a, b, 1, 0))

\* a * k for 0 <= k <= LimbBase
RECURSIVE BigMulSmallFrom(_, _, _, _)
BigMulSmallFrom(a, k, i, carry) ==
    IF i > Len(a)
    THEN BigFromInt(carry)
    ELSE LET t == a[i] * k + carry
         IN  <<t % LimbBase>> \o BigMulSmallFrom(a, k, i + 1, t \div LimbBase)

BigMulSmall(a, k) == BigNorm(BigMulSmallFrom(a, k, 1, 0))

BigZeros(n) == [i \in 1..n |-> 0]

RECURSIVE BigMulFrom(_, _, _)
BigMulFrom(a, b, i) ==
    IF i > Len(b) THEN <<>>
    ELSE BigAdd(BigNorm(BigZeros(i - 1) \o BigMulSmall(a, b[i])),
                BigMulFrom(a, b, i + 1))

BigMul(a, b) == BigNorm(BigMulFrom(a, b, 1))

\* quotient q and remainder r of a by d, 1 <= d <= LimbBase, from the top limb
\* down (long division; acc holds the quotient limbs found so far)
RECURSIVE BigDivSmallFrom(_, _, _, _, _)
BigDivSmallFrom(a, d, i, rem, acc) ==
    IF i = 0 THEN [q |-> acc, r |-> rem]
    ELSE BigDivSmallFrom(a, d, i - 1, (rem * LimbBase + a[i]) % d,
                         <<(rem * LimbBase + a[i]) \div d>> \o acc)

BigDivSmall(a, d) ==
    LET res == BigDivSmallFrom(a, d, Len(a), 0, <<>>)
    IN  [q |-> BigNorm(res.q), r |-> res.r]

\* -1, 0, 1 as a < b, a = b, a > b
RECURSIVE BigCmpFrom(_, _, _)
BigCmpFrom(a, b, i) ==
    IF i = 0 THEN 0
    ELSE IF a[i] < b[i] THEN -1
    ELSE IF a[i] > b[i] THEN 1
    ELSE BigCmpFrom(a, b, i - 1)

BigCmp(a, b) ==
    IF Len(a) < Len(b) THEN -1
    ELSE IF Len(a) > Len(b) THEN 1
    ELSE BigCmpFrom(a, b, Len(a))

\* a * 2^s and floor(a / 2^s)
BigShl(a, s) ==
    BigNorm(BigZeros(s \div LimbBits) \o BigMulSmall(a, 2^(s % LimbBits)))

BigShr(a, s) ==
    LET drop == s \div LimbBits
    IN  IF drop >= Len(a) THEN <<>>
        ELSE BigDivSmall(SubSeq(a, drop + 1, Len(a)), 2^(s % LimbBits)).q

RECURSIVE IntBitLen(_)
IntBitLen(n) == IF n = 0 THEN 0 ELSE 1 + IntBitLen(n \div 2)

BigBitLen(a) ==
    IF a = <<>> THEN 0 ELSE LimbBits * (Len(a) - 1) + IntBitLen(a[Len(a)])

BigIsOdd(a) == a # <<>> /\ a[1] % 2 = 1

(***************************************************************************)
(* Python float: IEEE-754 binary64, non-negative finite values.            *)
(***************************************************************************)
MantBits == 53
GuardBits == 80

DoubleZero == [m |-> <<>>, e |-> 0]

\* the double nearest to n * 2^e, ties to even
RoundToDouble(n, e) ==
    LET len == BigBitLen(n)
    IN  IF len = 0 THEN DoubleZero
        ELSE IF len <= MantBits
        THEN [m |-> BigShl(n, MantBits - len), e |-> e - (MantBits - len)]
        ELSE LET s == len - MantBits
                 q == BigShr(n, s)
                 rem == BigSub(n, BigShl(q, s))
                 c == BigCmp(rem, BigShl(<<1>>, s - 1))
                 up == c = 1 \/ (c = 0 /\ BigIsOdd(q))
                 q2 == IF up THEN BigAdd(q, <<1>>) ELSE q
             IN  IF BigBitLen(q2) > MantBits
                 THEN [m |-> BigShr(q2, 1), e |-> e + s + 1]
                 ELSE [m |-> q2, e |-> e + s]

\* the double nearest to p / q for integers 0 <= p, 1 <= q <= LimbBase: the
\* value of a decimal literal p/q and of the true division p / q of two ints
DoubleOfRatio(p, q) ==
    LET d == BigDivSmall(BigShl(BigFromInt(p), GuardBits), q)
        sticky == IF d.r = 0 THEN <<>> ELSE <<1>>
    IN  RoundToDouble(BigAdd(BigMulSmall(d.q, 2), sticky), 0 - (GuardBits + 1))

DoubleAdd(x, y) ==
    LET e0 == IF x.e < y.e THEN x.e ELSE y.e
    IN  RoundToDouble(BigAdd(BigShl(x.m, x.e - e0), BigShl(y.m, y.e - e0)), e0)

DoubleMul(x, y) == RoundToDouble(BigMul(x.m, y.m), x.e + y.e)

DoubleCmp(x, y) ==
    LET e0 == IF x.e < y.e THEN x.e ELSE y.e
    IN  BigCmp(BigShl(x.m, x.e - e0), BigShl(y.m, y.e - e0))

DoubleLt(x, y) == DoubleCmp(x, y) = -1
DoubleLe(x, y) == DoubleCmp(x, y) # 1

\* min(x, y) of Python: y if y < x else x
DoubleMin(x, y) == IF DoubleLt(y, x) THEN y ELSE x

\* float(n) for a natural number n
DoubleOfInt(n) == RoundToDouble(BigFromInt(n), 0)

\* the value of a natural number held as limbs
RECURSIVE BigToInt(_)
BigToInt(a) == IF a = <<>> THEN 0 ELSE a[1] + LimbBase * BigToInt(Tail(a))

\* the multiple of 1/10 nearest to x, as a number of tenths; a tie of the
\* exact binary value goes to the even digit, as the formatting of floats does
DoubleTenths(x) ==
    LET n == BigMulSmall(x.m, 10)
    IN  IF x.e >= 0 THEN BigToInt(BigShl(n, x.e))
        ELSE LET k == 0 - x.e
                 q == BigShr(n, k)
                 rem == BigSub(n, BigShl(q, k))
                 c == BigCmp(rem, BigShl(<<1>>, k - 1))
                 up == c = 1 \/ (c = 0 /\ BigIsOdd(q))
             IN  BigToInt(q) + (IF up THEN 1 ELSE 0)

(***************************************************************************)
(* Python dict: insertion-ordered sequence of [key, value] items.          *)
(***************************************************************************)
DictHas(d, k) == \E i \in 1..Len(d) : d[i].key = k

DictGet(d, k) == d[CHOOSE i \in 1..Len(d) : d[i].key = k].value

\* d.get(k, default)
DictGetOr(d, k, default) == IF DictHas(d, k) THEN DictGet(d, k) ELSE default

\* d[k] = v: replaces the value in place, or appends a new item
DictSet(d, k, v) ==
    IF DictHas(d, k)
    THEN [i \in 1..Len(d) |-> IF d[i].key = k THEN [key |-> k, value |-> v] ELSE d[i]]
    ELSE Append(d, [key |-> k, value |-> v])

\* list(d.keys())
DictKeys(d) == [i \in 1..Len(d) |-> d[i].key]

(***************************************************************************)
(* Inputs of the agent and replies of the generative model.                *)
(***************************************************************************)
None == "<None>"

\* bool(x) of an optional str
StrTruthy(x) == x # None /\ x # ""

Pad(text, n) == text \o StrRepeat("x", n - Len(text))

FailNarrative == "Summary generation failed. Please try again."
DraftEdge == Pad("a\n\nb\n\nc\n\nd", 500)
DraftShort == "Brief notes."
DraftWords == Pad("Summary\n\nThe key points\n\nfirst\n\nsecond", 1000)
DraftFull == Pad("SUMMARY overview\n\nKey main Insights\n\na\n\nb", 2000)
DraftLong == Pad("Summary overview\n\nmonkey maintains insights\n\na\n\nb", 2001)
DraftUnder == Pad("a\n\nb\n\nc\n\nd", 499)
DraftRuns == Pad("a\n\n\n\n\nb", 500)

\* the texts the scorer is applied to
Drafts == {FailNarrative, DraftShort, DraftWords, DraftEdge, DraftFull, DraftLong,
           DraftUnder, DraftRuns}

\* the replies of the model to the synthesis and to the refinement prompt
SynthTexts == {DraftEdge, DraftLong}
RefinedTexts == {DraftFull}

\* the texts a caller passes to the scorer between runs
DirectTexts == {DraftEdge}

PlanTexts == {"1. visual 2. audio 3. metadata", "Only the audio matters"}
AnalysisTexts == {"analysis text"}
ModelErrors == {"quota exceeded"}

VideoInfos ==
    { <<>>,
      << [key |-> "title", value |-> "Intro to TLA+"],
         [key |-> "channel", value |-> "Lectures"],
         [key |-> "duration", value |-> 600],
         [key |-> "description", value |-> "A talk"] >> }

FrameLists == {[i \in 1..n |-> i] : n \in 0..MaxFrames}

Transcripts == {None, "", "spoken words"}

CriteriaLists == { <<>>, <<"Clear structure", "Engaging content">> }

\* the criteria a caller passes to the scorer between runs
DirectCriteria == { <<>> }

(***************************************************************************)
(* Pure helpers of VideoSummaryAgent.                                      *)
(***************************************************************************)
RECURSIVE IntToStr(_)
IntToStr(n) ==
    IF n < 10 THEN CharAt("0123456789", n + 1)
    ELSE IntToStr(n \div 10) \o CharAt("0123456789", (n % 10) + 1)

\* separator.join(items)
RECURSIVE StrJoin(_, _)
StrJoin(sep, items) ==
    IF items = <<>> THEN ""
    ELSE IF Len(items) = 1 THEN items[1]
    ELSE items[1] \o sep \o StrJoin(sep, Tail(items))

\* the wall clock read by datetime.now(): whole seconds since the midnight
\* that began the day in which the agent was constructed
VARIABLE now

\* the HTTP layer (app.py): video_agent numbers the agent instance the
\* module-level name is bound to, http is the position of each
\* request-serving thread
VARIABLES video_agent, http

server == <<video_agent, http>>

SecondsPerDay == 86400

\* the agent is constructed in the last second of a day
ClockStart == SecondsPerDay - 1

\* "%02d" % n
Pad2(n) == IF n < 10 THEN "0" \o IntToStr(n) ELSE IntToStr(n)

\* datetime.strftime("%H:%M:%S"): the time of day, without date or fraction
Strftime(t) ==
    LET s == t % SecondsPerDay
    IN  Pad2(s \div 3600) \o ":" \o Pad2((s % 3600) \div 60) \o ":" \o Pad2(s % 60)

\* variant: the log keeps only its latest five entries
_log_agent_action_Capped(history, action) ==
    Append(IF Len(history) >= 5 THEN Tail(history) ELSE history,
           [timestamp |-> Strftime(now), action |-> action])

\* variant: the newest entry is put first
_log_agent_action_Front(history, action) ==
    <<[timestamp |-> Strftime(now), action |-> action]>> \o history

\* variant: every entry is written twice
_log_agent_action_Twice(history, action) ==
    history \o <<[timestamp |-> Strftime(now), action |-> action],
                 [timestamp |-> Strftime(now), action |-> action]>>

\* one entry of conversation_history: the time of day and the action name
_log_agent_action(history, action) ==
    Append(history, [timestamp |-> Strftime(now), action |-> action])

\* the inventory of plan_analysis_task
AssessAvailableData(vi, fr, tr) ==
    [video_metadata |-> vi # <<>>,
     visual_frames |-> IF fr # <<>> THEN Len(fr) ELSE 0,
     audio_content |-> StrTruthy(tr),
     video_duration |-> IF vi # <<>> THEN DictGetOr(vi, "duration", 0) ELSE 0]

\* variant: the steps follow the wording of the plan text
_extract_priority_steps_FromText(plan_text) ==
    IF StrContains("visual", StrLower(plan_text))
    THEN <<"Visual Analysis", "Audio Analysis", "Metadata Analysis", "Content Synthesis">>
    ELSE <<"Audio Analysis", "Content Synthesis">>

_extract_priority_steps(plan_text) ==
    <<"Visual Analysis", "Audio Analysis", "Metadata Analysis", "Content Synthesis">>

_extract_expected_insights(plan_text) ==
    <<"Visual themes", "Audio content", "Metadata context", "Comprehensive summary">>

_extract_quality_criteria(plan_text) ==
    <<"Comprehensive coverage", "Clear structure", "Engaging content", "Accurate analysis">>

\* the plan built on the success path of plan_analysis_task
CreatePlan(plan_text, data) ==
    [plan_text |-> plan_text,
     available_data |-> data,
     priority_steps |-> _extract_priority_steps(plan_text),
     expected_insights |-> _extract_expected_insights(plan_text),
     quality_criteria |-> _extract_quality_criteria(plan_text)]

\* variant: the fallback plan keeps the steps of the regular plan
_create_fallback_plan_AllSteps(data) ==
    [plan_text |-> "Fallback analysis plan",
     available_data |-> data,
     priority_steps |-> _extract_priority_steps(""),
     expected_insights |-> <<"Basic insights">>,
     quality_criteria |-> <<"Basic quality">>]

_create_fallback_plan(data) ==
    [plan_text |-> "Fallback analysis plan",
     available_data |-> data,
     priority_steps |-> <<"Visual Analysis", "Content Synthesis">>,
     expected_insights |-> <<"Basic insights">>,
     quality_criteria |-> <<"Basic quality">>]

_extract_key_insights(text) == <<"Key insight extracted from analysis">>
_extract_visual_themes(text) == <<"Visual theme identified">>
_extract_key_topics(text) == <<"Key topic identified">>
_extract_tone_analysis(text) == "Tone analysis completed"

_analyze_title(title) ==
    "Title suggests: "
        \o SubSeq(title, 1, IF Len(title) < 50 THEN Len(title) ELSE 50) \o "..."

_analyze_duration(duration) ==
    IF duration < 300 THEN "Short-form content"
    ELSE IF duration < 1800 THEN "Medium-form content"
    ELSE "Long-form content"

_analyze_description(description) ==
    "Description length: " \o IntToStr(Len(description)) \o " characters"

\* the record built by _analyze_metadata
MetadataRecord(vi) ==
    [title_analysis |-> _analyze_title(DictGetOr(vi, "title", "")),
     channel_context |-> DictGetOr(vi, "channel", "Unknown"),
     duration_analysis |-> _analyze_duration(DictGetOr(vi, "duration", 0)),
     description_insights |-> _analyze_description(DictGetOr(vi, "description", "")),
     engagement_metrics |-> [view_count |-> DictGetOr(vi, "view_count", "N/A"),
                             upload_date |-> DictGetOr(vi, "upload_date", "N/A")]]

\* frames[:6]
MaxSentFrames == 6

\* f"{x:.1f}" for x given as a number of tenths
FormatTenths(t) == IntToStr(t \div 10) \o "." \o IntToStr(t % 10)

\* the label of the frame at position i (from 0) of n frames:
\* f"Frame {i+1} (timestamp: {i * (duration / n):.1f}s):"
FrameLabel(i, duration, n) ==
    "Frame " \o IntToStr(i + 1) \o " (timestamp: "
        \o FormatTenths(DoubleTenths(DoubleMul(DoubleOfInt(i),
                                               DoubleOfRatio(duration, n))))
        \o "s):"

\* variant: the timestamps are spread over the frames that are sent
VisualContent_OverSent(fr, vi) ==
    LET sent == IF Len(fr) < MaxSentFrames THEN Len(fr) ELSE MaxSentFrames
    IN  [k \in 1..sent |->
            [label |-> FrameLabel(k - 1, DictGetOr(vi, "duration", 0), sent),
             frame |-> fr[k]]]

\* what _analyze_visual_content sends after the prompt text: for each of
\* the first six frames its label and the frame
VisualContent(fr, vi) ==
    LET sent == IF Len(fr) < MaxSentFrames THEN Len(fr) ELSE MaxSentFrames
    IN  [k \in 1..sent |->
            [label |-> FrameLabel(k - 1, DictGetOr(vi, "duration", 0), Len(fr)),
             frame |-> fr[k]]]

\* the records of _analyze_visual_content: success and failure
VisualRecord(text, fr) ==
    [analysis |-> text,
     frames_processed |-> Len(fr),
     key_insights |-> _extract_key_insights(text),
     visual_themes |-> _extract_visual_themes(text)]

\* variant: the degraded record carries the error text as its narrative
VisualErrorRecord_ErrorOnly(err) == [analysis |-> err, error |-> err]

VisualErrorRecord(err) == [analysis |-> "Visual analysis unavailable", error |-> err]

\* the records of _analyze_audio_content: success and failure
AudioRecord(text, tr) ==
    [analysis |-> text,
     transcript_length |-> Len(tr),
     key_topics |-> _extract_key_topics(text),
     tone_analysis |-> _extract_tone_analysis(text)]

AudioErrorRecord(err) == [analysis |-> "Audio analysis unavailable", error |-> err]

\* step.lower().replace(' ', '_')
StepName(step) == StrReplaceChar(StrLower(step), " ", "_")

\* variant: the audio branch tests `audio_transcript is not None`
StepBranch_NotNone(step, fr, tr) ==
    LET step_name == StepName(step)
    IN  IF StrContains("visual", step_name) /\ fr # <<>> THEN "visual"
        ELSE IF StrContains("audio", step_name) /\ tr # None THEN "audio"
        ELSE IF StrContains("metadata", step_name) THEN "metadata"
        ELSE "none"

\* the if / elif chain of the step loop of execute_analysis
StepBranch(step, fr, tr) ==
    LET step_name == StepName(step)
    IN  IF StrContains("visual", step_name) /\ fr # <<>> THEN "visual"
        ELSE IF StrContains("audio", step_name) /\ StrTruthy(tr) THEN "audio"
        ELSE IF StrContains("metadata", step_name) THEN "metadata"
        ELSE "none"

KeyElements == <<"summary", "overview", "key", "main", "insights">>

\* the float literals of the scorer and of the refinement test
Float_0_5 == DoubleOfRatio(5, 10)
Float_0_2 == DoubleOfRatio(2, 10)
Float_0_1 == DoubleOfRatio(1, 10)
Float_0_8 == DoubleOfRatio(8, 10)
Float_1_0 == DoubleOfRatio(1, 1)

\* variant: the structure bonus needs more than 3 breaks
_quality_check_summary_MoreBreaks(summary, quality_criteria) ==
    LET base == Float_0_5
        withLength == IF 500 <= Len(summary) /\ Len(summary) <= 2000
                      THEN DoubleAdd(base, Float_0_2) ELSE base
        withStructure == IF StrCount(summary, "\n\n") > 3
                         THEN DoubleAdd(withLength, Float_0_1) ELSE withLength
        lowered == StrLower(summary)
        found_elements == Cardinality({i \in 1..Len(KeyElements) :
                              StrContains(StrLower(KeyElements[i]), lowered)})
        score == DoubleAdd(withStructure,
                     DoubleMul(DoubleOfRatio(found_elements, Len(KeyElements)), Float_0_2))
    IN  DoubleMin(score, Float_1_0)

\* variant: every quality criterion met by name adds to the score
_quality_check_summary_Criteria(summary, quality_criteria) ==
    LET base == DoubleAdd(Float_0_5,
                    DoubleMul(DoubleOfRatio(Len(quality_criteria), 1), Float_0_1))
        withLength == IF 500 <= Len(summary) /\ Len(summary) <= 2000
                      THEN DoubleAdd(base, Float_0_2) ELSE base
        withStructure == IF StrCount(summary, "\n\n") >= 3
                         THEN DoubleAdd(withLength, Float_0_1) ELSE withLength
        lowered == StrLower(summary)
        found_elements == Cardinality({i \in 1..Len(KeyElements) :
                              StrContains(StrLower(KeyElements[i]), lowered)})
        score == DoubleAdd(withStructure,
                     DoubleMul(DoubleOfRatio(found_elements, Len(KeyElements)), Float_0_2))
    IN  DoubleMin(score, Float_1_0)

\* the value returned by _quality_check_summary
_quality_check_summary(summary, quality_criteria) ==
    LET base == Float_0_5
        withLength == IF 500 <= Len(summary) /\ Len(summary) <= 2000
                      THEN DoubleAdd(base, Float_0_2) ELSE base
        withStructure == IF StrCount(summary, "\n\n") >= 3
                         THEN DoubleAdd(withLength, Float_0_1) ELSE withLength
        lowered == StrLower(summary)
        found_elements == Cardinality({i \in 1..Len(KeyElements) :
                              StrContains(StrLower(KeyElements[i]), lowered)})
        score == DoubleAdd(withStructure,
                     DoubleMul(DoubleOfRatio(found_elements, Len(KeyElements)), Float_0_2))
    IN  DoubleMin(score, Float_1_0)

\* the scores of the texts and criteria lists of the model, each computed once
ScoreTable ==
    { [summary |-> t, quality_criteria |-> qc,
       score |-> _quality_check_summary(t, qc)] :
          t \in Drafts,
          qc \in CriteriaLists \cup {_extract_quality_criteria(""),
                                     _create_fallback_plan(None).quality_criteria} }

QualityScore(summary, quality_criteria) ==
    (CHOOSE r \in ScoreTable :
         r.summary = summary /\ r.quality_criteria = quality_criteria).score

\* variant: the test is `quality_score <= 0.8`
NeedsRefinement_Le(score) == DoubleLe(score, Float_0_8)

\* the test `quality_score < 0.8` of execute_analysis
NeedsRefinement(score) == DoubleLt(score, Float_0_8)

\* variant: a failed refinement returns a failure narrative
RefineReturn_Narrative(summary, ok, text) ==
    IF ok THEN text ELSE "Summary refinement failed."

\* what _refine_summary returns: the model's text, or the summary it was given
RefineReturn(summary, ok, text) == IF ok THEN text ELSE summary

\* what _synthesize_content returns
\* variant: a failed synthesis returns a short note
SynthesisReturn_Short(ok, text) == IF ok THEN text ELSE DraftShort

SynthesisReturn(ok, text) == IF ok THEN text ELSE FailNarrative

Arrow == " -> "

\* variant: the first n entries
LastN_FromStart(seq, n) == SubSeq(seq, 1, IF Len(seq) > n THEN n ELSE Len(seq))

\* seq[-n:]
LastN(seq, n) == SubSeq(seq, IF Len(seq) > n THEN Len(seq) - n + 1 ELSE 1, Len(seq))

_generate_reasoning_explanation(history) ==
    LET last == LastN(history, 10)
        actions == [i \in 1..Len(last) |-> last[i].action]
    IN  "Agent completed analysis using steps: " \o StrJoin(Arrow, actions)

(***************************************************************************)
(* State.  The agent: conversation_history, task_memory, analysis_cache.   *)
(* The one thread of control: pc, the operation it runs (op), the          *)
(* arguments and the locals of plan_analysis_task and execute_analysis.    *)
(* result is the outcome of the last operation, once it has ended.         *)
(* last_plan, run and score_calls are history variables: the call of       *)
(* plan_analysis_task and the run of execute_analysis made by the current  *)
(* or last operation, and every call of _quality_check_summary.  trace is  *)
(* the history of the current or last operation: the length of the log     *)
(* when it began, the model calls that have returned or raised in it and   *)
(* the labelled frames its visual model call was given.                    *)
(***************************************************************************)
VARIABLES conversation_history, task_memory, analysis_cache,
          pc, op,
          video_info, frames, audio_transcript,
          available_data, plan, analysis_results, step_idx,
          synthesis_result, quality_score,
          result, last_plan, run, score_calls, trace

agent == <<conversation_history, task_memory, analysis_cache>>
args == <<video_info, frames, audio_transcript>>
locals == <<available_data, plan, analysis_results, step_idx,
            synthesis_result, quality_score>>
vars == <<conversation_history, task_memory, analysis_cache, pc, op,
          video_info, frames, audio_transcript,
          available_data, plan, analysis_results, step_idx,
          synthesis_result, quality_score,
          result, last_plan, run, score_calls, trace, now, video_agent, http>>

\* the threads that serve requests at the same time
Threads == 1..MaxRequests

\* a thread that serves no request; inside is the agent instance whose
\* method the thread is executing, ran_on the instance its execute_analysis
\* ran on, status_of the instance whose status it has read
IdleRequest == [pc |-> "idle", inside |-> None, ran_on |-> None, status_of |-> None]

NoResult == [op |-> "none", outcome |-> "none", value |-> None, args |-> None]

NoPlanCall == [outcome |-> "none", returned |-> None, args |-> None]

NoRun == [args |-> None, had_plan |-> FALSE, plan_failed |-> FALSE,
          draft |-> None, synth_failed |-> FALSE, refine |-> "none",
          mapping |-> None]

\* the history of an operation that begins with n log entries
NewTrace(n) == [log_start |-> n, model_calls |-> <<>>, visual_content |-> <<>>]

\* the model call at a call site has returned text (ok) or raised err
ModelCall(site, ok, text, err) ==
    [site |-> site, ok |-> ok, text |-> text, error |-> err]

Traced(site, ok, text, err) ==
    trace' = [trace EXCEPT !.model_calls = Append(@, ModelCall(site, ok, text, err))]

Init ==
    /\ now = ClockStart
    /\ video_agent = 0
    /\ http = [t \in Threads |-> IdleRequest]
    /\ trace = NewTrace(0)
    /\ conversation_history = <<>>
    /\ task_memory = <<>>
    /\ analysis_cache = <<>>
    /\ pc = "idle"
    /\ op = "none"
    /\ video_info = None
    /\ frames = None
    /\ audio_transcript = None
    /\ available_data = None
    /\ plan = None
    /\ analysis_results = <<>>
    /\ step_idx = 0
    /\ synthesis_result = None
    /\ quality_score = None
    /\ result = NoResult
    /\ last_plan = NoPlanCall
    /\ run = NoRun
    /\ score_calls = <<>>

\* the frame of an operation is dropped when it ends
DropFrame ==
    /\ pc' = "idle"
    /\ op' = "none"
    /\ video_info' = None
    /\ frames' = None
    /\ audio_transcript' = None
    /\ available_data' = None
    /\ plan' = None
    /\ analysis_results' = <<>>
    /\ step_idx' = 0
    /\ synthesis_result' = None
    /\ quality_score' = None

(***************************************************************************)
(* plan_analysis_task                                                      *)
(***************************************************************************)
\* a caller invokes plan_analysis_task: the log entry and the inventory
CallPlanAnalysisTask(vi, fr, tr) ==
    /\ pc = "idle"
    /\ Len(conversation_history) < MaxHistory
    /\ op' = "plan_analysis_task"
    /\ pc' = "plan_model"
    /\ video_info' = vi
    /\ frames' = fr
    /\ audio_transcript' = tr
    /\ conversation_history' = _log_agent_action(conversation_history, "PLANNING")
    /\ available_data' = AssessAvailableData(vi, fr, tr)
    /\ last_plan' = [outcome |-> "running", returned |-> None, args |-> <<vi, fr, tr>>]
    /\ result' = NoResult
    /\ run' = NoRun
    /\ UNCHANGED <<task_memory, analysis_cache, plan, analysis_results, step_idx,
                   synthesis_result, quality_score, score_calls>>
    /\ trace' = NewTrace(Len(conversation_history))
    /\ UNCHANGED <<now, server>>

\* plan_analysis_task returns value: to its caller, or into execute_analysis
PlanReturn(outcome, value) ==
    /\ last_plan' = [last_plan EXCEPT !.outcome = outcome, !.returned = value]
    /\ IF op = "plan_analysis_task"
       THEN /\ result' = [op |-> "plan_analysis_task", outcome |-> "returned",
                          value |-> value, args |-> last_plan.args]
            /\ DropFrame
       ELSE /\ pc' = "exec_load_plan"
            /\ available_data' = None
            /\ UNCHANGED <<op, args, plan, analysis_results, step_idx,
                           synthesis_result, quality_score, result>>

\* the planning call succeeds: the plan is built, stored and returned
PlanModelOk(text) ==
    /\ pc = "plan_model"
    /\ LET analysis_plan == CreatePlan(text, available_data)
       IN  /\ task_memory' = DictSet(task_memory, "analysis_plan", analysis_plan)
           /\ conversation_history' =
                  _log_agent_action(conversation_history, "PLAN_CREATED")
           /\ PlanReturn("created", analysis_plan)
    /\ UNCHANGED <<analysis_cache, run, score_calls>>
    /\ Traced("planning", TRUE, text, None)
    /\ UNCHANGED <<now, server>>

\* the planning call raises: the except branch returns the fallback plan
PlanModelFail(err) ==
    /\ pc = "plan_model"
    /\ conversation_history' = _log_agent_action(conversation_history, "PLAN_ERROR")
    /\ PlanReturn("fallback", _create_fallback_plan(available_data))
    /\ run' = IF op = "execute_analysis" THEN [run EXCEPT !.plan_failed = TRUE] ELSE run
    /\ UNCHANGED <<task_memory, analysis_cache, score_calls>>
    /\ Traced("planning", FALSE, None, err)
    /\ UNCHANGED <<now, server>>

(***************************************************************************)
(* execute_analysis                                                        *)
(***************************************************************************)
\* variant: the cached plan is never looked at
PlanIsCached_Never(memory) == FALSE

\* 'analysis_plan' in self.task_memory
PlanIsCached(memory) == DictHas(memory, "analysis_plan")

\* execute_analysis is entered; without a cached plan it enters
\* plan_analysis_task with its own arguments
EnterExecuteAnalysis(vi, fr, tr) ==
    /\ pc = "idle"
    /\ op' = "execute_analysis"
    /\ video_info' = vi
    /\ frames' = fr
    /\ audio_transcript' = tr
    /\ run' = [NoRun EXCEPT !.args = <<vi, fr, tr>>,
                            !.had_plan = DictHas(task_memory, "analysis_plan")]
    /\ IF PlanIsCached(task_memory)
       THEN /\ conversation_history' =
                   _log_agent_action(conversation_history, "EXECUTION_START")
            /\ pc' = "exec_load_plan"
            /\ last_plan' = NoPlanCall
            /\ UNCHANGED available_data
       ELSE /\ conversation_history' =
                   _log_agent_action(
                       _log_agent_action(conversation_history, "EXECUTION_START"),
                       "PLANNING")
            /\ pc' = "plan_model"
            /\ available_data' = AssessAvailableData(vi, fr, tr)
            /\ last_plan' = [outcome |-> "running", returned |-> None,
                             args |-> <<vi, fr, tr>>]
    /\ result' = NoResult
    /\ UNCHANGED <<task_memory, analysis_cache, plan, analysis_results, step_idx,
                   synthesis_result, quality_score, score_calls>>
    /\ trace' = NewTrace(Len(conversation_history))
    /\ UNCHANGED <<now, server>>

\* a caller invokes execute_analysis
CallExecuteAnalysis(vi, fr, tr) ==
    /\ Len(conversation_history) < MaxHistory
    /\ EnterExecuteAnalysis(vi, fr, tr)

\* a caller invokes execute_analysis again on an agent whose first
\* operation was a run of execute_analysis that has returned
CallExecuteAgain(vi, fr, tr) ==
    /\ result.op = "execute_analysis"
    /\ result.outcome = "returned"
    /\ trace.log_start = 0
    /\ EnterExecuteAnalysis(vi, fr, tr)

\* plan = self.task_memory['analysis_plan'] with the key present
ExecLoadPlan ==
    /\ pc = "exec_load_plan"
    /\ DictHas(task_memory, "analysis_plan")
    /\ plan' = DictGet(task_memory, "analysis_plan")
    /\ analysis_results' = <<>>
    /\ step_idx' = 1
    /\ pc' = "exec_steps"
    /\ UNCHANGED <<agent, op, args, available_data, synthesis_result,
                   quality_score, result, last_plan, run, score_calls>>
    /\ UNCHANGED <<trace, now, server>>

\* plan = self.task_memory['analysis_plan'] with the key absent: KeyError
\* leaves execute_analysis
ExecPlanKeyError ==
    /\ pc = "exec_load_plan"
    /\ ~DictHas(task_memory, "analysis_plan")
    /\ result' = [op |-> "execute_analysis", outcome |-> "raised",
                  value |-> "KeyError: 'analysis_plan'", args |-> run.args]
    /\ DropFrame
    /\ UNCHANGED <<agent, last_plan, run, score_calls>>
    /\ UNCHANGED <<trace, now, server>>

CurrentStep == plan.priority_steps[step_idx]

InStepLoop == pc = "exec_steps" /\ step_idx <= Len(plan.priority_steps)

\* a step that matches no branch, or whose input is absent
StepSkip ==
    /\ InStepLoop
    /\ StepBranch(CurrentStep, frames, audio_transcript) = "none"
    /\ step_idx' = step_idx + 1
    /\ UNCHANGED <<agent, pc, op, args, available_data, plan,
                   analysis_results, synthesis_result, quality_score, result,
                   last_plan, run, score_calls>>
    /\ UNCHANGED <<trace, now, server>>

\* _analyze_visual_content up to its model call
VisualStart ==
    /\ InStepLoop
    /\ StepBranch(CurrentStep, frames, audio_transcript) = "visual"
    /\ conversation_history' =
           _log_agent_action(conversation_history, "VISUAL_ANALYSIS")
    /\ pc' = "visual_model"
    /\ trace' = [trace EXCEPT !.visual_content = VisualContent(frames, video_info)]
    /\ UNCHANGED <<task_memory, analysis_cache, op, args, locals, result,
                   last_plan, run, score_calls>>
    /\ UNCHANGED <<now, server>>

VisualModelOk(text) ==
    /\ pc = "visual_model"
    /\ LET visual_analysis == VisualRecord(text, frames)
       IN  /\ analysis_cache' = DictSet(analysis_cache, "visual", visual_analysis)
           /\ analysis_results' = DictSet(analysis_results, "visual", visual_analysis)
    /\ step_idx' = step_idx + 1
    /\ pc' = "exec_steps"
    /\ UNCHANGED <<conversation_history, task_memory, op, args,
                   available_data, plan, synthesis_result, quality_score, result,
                   last_plan, run, score_calls>>
    /\ Traced("visual", TRUE, text, None)
    /\ UNCHANGED <<now, server>>

VisualModelFail(err) ==
    /\ pc = "visual_model"
    /\ conversation_history' = _log_agent_action(conversation_history, "VISUAL_ERROR")
    /\ analysis_results' = DictSet(analysis_results, "visual", VisualErrorRecord(err))
    /\ step_idx' = step_idx + 1
    /\ pc' = "exec_steps"
    /\ UNCHANGED <<task_memory, analysis_cache, op, args, available_data,
                   plan, synthesis_result, quality_score, result, last_plan, run,
                   score_calls>>
    /\ Traced("visual", FALSE, None, err)
    /\ UNCHANGED <<now, server>>

\* _analyze_audio_content up to its model call
AudioStart ==
    /\ InStepLoop
    /\ StepBranch(CurrentStep, frames, audio_transcript) = "audio"
    /\ conversation_history' =
           _log_agent_action(conversation_history, "AUDIO_ANALYSIS")
    /\ pc' = "audio_model"
    /\ UNCHANGED <<task_memory, analysis_cache, op, args, locals, result,
                   last_plan, run, score_calls>>
    /\ UNCHANGED <<trace, now, server>>

AudioModelOk(text) ==
    /\ pc = "audio_model"
    /\ LET audio_analysis == AudioRecord(text, audio_transcript)
       IN  /\ analysis_cache' = DictSet(analysis_cache, "audio", audio_analysis)
           /\ analysis_results' = DictSet(analysis_results, "audio", audio_analysis)
    /\ step_idx' = step_idx + 1
    /\ pc' = "exec_steps"
    /\ UNCHANGED <<conversation_history, task_memory, op, args,
                   available_data, plan, synthesis_result, quality_score, result,
                   last_plan, run, score_calls>>
    /\ Traced("audio", TRUE, text, None)
    /\ UNCHANGED <<now, server>>

AudioModelFail(err) ==
    /\ pc = "audio_model"
    /\ conversation_history' = _log_agent_action(conversation_history, "AUDIO_ERROR")
    /\ analysis_results' = DictSet(analysis_results, "audio", AudioErrorRecord(err))
    /\ step_idx' = step_idx + 1
    /\ pc' = "exec_steps"
    /\ UNCHANGED <<task_memory, analysis_cache, op, args, available_data,
                   plan, synthesis_result, quality_score, result, last_plan, run,
                   score_calls>>
    /\ Traced("audio", FALSE, None, err)
    /\ UNCHANGED <<now, server>>

\* _analyze_metadata: no model call
MetadataStep ==
    /\ InStepLoop
    /\ StepBranch(CurrentStep, frames, audio_transcript) = "metadata"
    /\ conversation_history' =
           _log_agent_action(conversation_history, "METADATA_ANALYSIS")
    /\ LET metadata_analysis == MetadataRecord(video_info)
       IN  /\ analysis_cache' = DictSet(analysis_cache, "metadata", metadata_analysis)
           /\ analysis_results' =
                  DictSet(analysis_results, "metadata", metadata_analysis)
    /\ step_idx' = step_idx + 1
    /\ UNCHANGED <<task_memory, pc, op, args, available_data, plan,
                   synthesis_result, quality_score, result, last_plan, run,
                   score_calls>>
    /\ UNCHANGED <<trace, now, server>>

\* the loop is over: SYNTHESIS is logged and _synthesize_content runs up to
\* its model call
SynthesisStart ==
    /\ pc = "exec_steps"
    /\ step_idx > Len(plan.priority_steps)
    /\ conversation_history' =
           _log_agent_action(_log_agent_action(conversation_history, "SYNTHESIS"),
                             "CONTENT_SYNTHESIS")
    /\ pc' = "synth_model"
    /\ UNCHANGED <<task_memory, analysis_cache, op, args, locals, result,
                   last_plan, run, score_calls>>
    /\ UNCHANGED <<trace, now, server>>

\* _synthesize_content returns the model's text; QUALITY_CHECK is logged
SynthModelOk(text) ==
    /\ pc = "synth_model"
    /\ synthesis_result' = SynthesisReturn(TRUE, text)
    /\ run' = [run EXCEPT !.draft = SynthesisReturn(TRUE, text)]
    /\ conversation_history' = _log_agent_action(conversation_history, "QUALITY_CHECK")
    /\ pc' = "quality_check"
    /\ UNCHANGED <<task_memory, analysis_cache, op, args, available_data,
                   plan, analysis_results, step_idx, quality_score, result,
                   last_plan, score_calls>>
    /\ Traced("synthesis", TRUE, text, None)
    /\ UNCHANGED <<now, server>>

\* the synthesis call raises: the fixed narrative is returned
SynthModelFail(err) ==
    /\ pc = "synth_model"
    /\ synthesis_result' = SynthesisReturn(FALSE, err)
    /\ run' = [run EXCEPT !.draft = SynthesisReturn(FALSE, err), !.synth_failed = TRUE]
    /\ conversation_history' =
           _log_agent_action(
               _log_agent_action(conversation_history, "SYNTHESIS_ERROR"),
               "QUALITY_CHECK")
    /\ pc' = "quality_check"
    /\ UNCHANGED <<task_memory, analysis_cache, op, args, available_data,
                   plan, analysis_results, step_idx, quality_score, result,
                   last_plan, score_calls>>
    /\ Traced("synthesis", FALSE, None, err)
    /\ UNCHANGED <<now, server>>

(***************************************************************************)
(* _quality_check_summary: called by execute_analysis, and by a caller     *)
(* through available_tools['quality_check'].                               *)
(***************************************************************************)
ScoreCall(summary, quality_criteria, score) ==
    [summary |-> summary, quality_criteria |-> quality_criteria, score |-> score,
     logged |-> Len(conversation_history)]

QualityCheck ==
    /\ pc = "quality_check"
    /\ conversation_history' =
           _log_agent_action(conversation_history, "QUALITY_ASSESSMENT")
    /\ LET score == QualityScore(synthesis_result, plan.quality_criteria)
       IN  /\ quality_score' = score
           /\ score_calls' = Append(score_calls,
                  ScoreCall(synthesis_result, plan.quality_criteria, score))
    /\ pc' = "refine_test"
    /\ UNCHANGED <<task_memory, analysis_cache, op, args, available_data,
                   plan, analysis_results, step_idx, synthesis_result, result,
                   last_plan, run>>
    /\ UNCHANGED <<trace, now, server>>

CallQualityCheck(summary, quality_criteria) ==
    /\ pc = "idle"
    /\ Len(conversation_history) < MaxHistory
    /\ conversation_history' =
           _log_agent_action(conversation_history, "QUALITY_ASSESSMENT")
    /\ LET score == QualityScore(summary, quality_criteria)
       IN  /\ result' = [op |-> "_quality_check_summary", outcome |-> "returned",
                         value |-> score, args |-> <<summary, quality_criteria>>]
           /\ score_calls' = Append(score_calls,
                  ScoreCall(summary, quality_criteria, score))
    /\ last_plan' = NoPlanCall
    /\ run' = NoRun
    /\ UNCHANGED <<task_memory, analysis_cache, pc, op, args, locals>>
    /\ trace' = NewTrace(Len(conversation_history))
    /\ UNCHANGED <<now, server>>

(***************************************************************************)
(* execute_analysis, continued: refinement and the result                  *)
(***************************************************************************)
\* quality_score < 0.8: REFINEMENT is logged and _refine_summary runs up to
\* its model call
RefineStart ==
    /\ pc = "refine_test"
    /\ NeedsRefinement(quality_score)
    /\ conversation_history' =
           _log_agent_action(_log_agent_action(conversation_history, "REFINEMENT"),
                             "SUMMARY_REFINEMENT")
    /\ run' = [run EXCEPT !.refine = "called"]
    /\ pc' = "refine_model"
    /\ UNCHANGED <<task_memory, analysis_cache, op, args, locals, result,
                   last_plan, score_calls>>
    /\ UNCHANGED <<trace, now, server>>

RefineSkip ==
    /\ pc = "refine_test"
    /\ ~NeedsRefinement(quality_score)
    /\ pc' = "exec_finish"
    /\ UNCHANGED <<agent, op, args, locals, result, last_plan, run,
                   score_calls>>
    /\ UNCHANGED <<trace, now, server>>

RefineModelOk(text) ==
    /\ pc = "refine_model"
    /\ synthesis_result' = RefineReturn(synthesis_result, TRUE, text)
    /\ run' = [run EXCEPT !.refine = "refined"]
    /\ pc' = "exec_finish"
    /\ UNCHANGED <<agent, op, args, available_data, plan, analysis_results,
                   step_idx, quality_score, result, last_plan, score_calls>>
    /\ Traced("refinement", TRUE, text, None)
    /\ UNCHANGED <<now, server>>

RefineModelFail(err) ==
    /\ pc = "refine_model"
    /\ conversation_history' =
           _log_agent_action(conversation_history, "REFINEMENT_ERROR")
    /\ synthesis_result' = RefineReturn(synthesis_result, FALSE, err)
    /\ run' = [run EXCEPT !.refine = "failed"]
    /\ pc' = "exec_finish"
    /\ UNCHANGED <<task_memory, analysis_cache, op, args, available_data,
                   plan, analysis_results, step_idx, quality_score, result,
                   last_plan, score_calls>>
    /\ Traced("refinement", FALSE, None, err)
    /\ UNCHANGED <<now, server>>

\* final_result is assembled, EXECUTION_COMPLETE is logged, the result returned
ExecFinish ==
    /\ pc = "exec_finish"
    /\ result' = [op |-> "execute_analysis", outcome |-> "returned",
                  value |-> [summary |-> synthesis_result,
                             analysis_steps_completed |-> DictKeys(analysis_results),
                             quality_score |-> quality_score,
                             agent_reasoning |->
                                 _generate_reasoning_explanation(conversation_history)],
                  args |-> run.args]
    /\ conversation_history' =
           _log_agent_action(conversation_history, "EXECUTION_COMPLETE")
    /\ run' = [run EXCEPT !.mapping = analysis_results]
    /\ DropFrame
    /\ UNCHANGED <<task_memory, analysis_cache, last_plan, score_calls>>
    /\ UNCHANGED <<trace, now, server>>

(***************************************************************************)
(* get_agent_status                                                        *)
(***************************************************************************)
CallGetAgentStatus ==
    /\ pc = "idle"
    /\ Len(conversation_history) < MaxHistory
    /\ result' = [op |-> "get_agent_status", outcome |-> "returned",
                  value |-> [actions_taken |-> Len(conversation_history),
                             cached_analyses |-> DictKeys(analysis_cache),
                             task_memory_keys |-> DictKeys(task_memory),
                             last_action |->
                                 IF conversation_history # <<>>
                                 THEN conversation_history[Len(conversation_history)]
                                 ELSE None],
                  args |-> None]
    /\ last_plan' = NoPlanCall
    /\ run' = NoRun
    /\ UNCHANGED <<agent, pc, op, args, locals, score_calls>>
    /\ trace' = NewTrace(Len(conversation_history))
    /\ UNCHANGED <<now, server>>

(***************************************************************************)
(* The specification.                                                      *)
(***************************************************************************)
PlanCall == \E vi \in VideoInfos, fr \in FrameLists, tr \in Transcripts :
                CallPlanAnalysisTask(vi, fr, tr)
ExecuteCall == \E vi \in VideoInfos, fr \in FrameLists, tr \in Transcripts :
                   CallExecuteAnalysis(vi, fr, tr)
ScorerCall == \E summary \in DirectTexts, qc \in DirectCriteria :
                  CallQualityCheck(summary, qc)
PlanModelReturns == \E text \in PlanTexts : PlanModelOk(text)
PlanModelRaises == \E err \in ModelErrors : PlanModelFail(err)
VisualModelReturns == \E text \in AnalysisTexts : VisualModelOk(text)
VisualModelRaises == \E err \in ModelErrors : VisualModelFail(err)
AudioModelReturns == \E text \in AnalysisTexts : AudioModelOk(text)
AudioModelRaises == \E err \in ModelErrors : AudioModelFail(err)
SynthModelReturns == \E text \in SynthTexts : SynthModelOk(text)
SynthModelRaises == \E err \in ModelErrors : SynthModelFail(err)
RefineModelReturns == \E text \in RefinedTexts : RefineModelOk(text)
RefineModelRaises == \E err \in ModelErrors : RefineModelFail(err)

Next ==
    \/ PlanCall
    \/ PlanModelReturns
    \/ PlanModelRaises
    \/ ExecuteCall
    \/ ExecLoadPlan
    \/ ExecPlanKeyError
    \/ StepSkip
    \/ VisualStart
    \/ VisualModelReturns
    \/ VisualModelRaises
    \/ AudioStart
    \/ AudioModelReturns
    \/ AudioModelRaises
    \/ MetadataStep
    \/ SynthesisStart
    \/ SynthModelReturns
    \/ SynthModelRaises
    \/ QualityCheck
    \/ ScorerCall
    \/ RefineStart
    \/ RefineSkip
    \/ RefineModelReturns
    \/ RefineModelRaises
    \/ ExecFinish
    \/ CallGetAgentStatus

Spec == Init /\ [][Next]_vars

\* a second passes on the wall clock
Tick ==
    /\ now < ClockStart + MaxTicks
    /\ now' = now + 1
    /\ UNCHANGED <<agent, pc, op, args, locals, result, last_plan, run,
                   score_calls, trace, server>>

\* the agent with the wall clock running
NextClock ==
    \/ Tick
    \/ Next

SpecClock == Init /\ [][NextClock]_vars

\* the videos and frame sets given to the visual runner: no duration, and
\* durations that the frame count divides and does not divide
VisualVideoInfos ==
    { <<>>, << [key |-> "duration", value |-> 600] >>,
      << [key |-> "duration", value |-> 7] >> }

\* execute_analysis on a fresh agent with up to ManyFrames frames
VisualRunCall ==
    \E vi \in VisualVideoInfos, n \in 1..ManyFrames :
        /\ conversation_history = <<>>
        /\ CallExecuteAnalysis(vi, [i \in 1..n |-> i], None)

\* the agent, given large frame sets as well
NextVisual ==
    \/ VisualRunCall
    \/ Next

SpecVisual == Init /\ [][NextVisual]_vars

\* the agent, reused for a second run after its first
SecondRunCall == \E vi \in VideoInfos, fr \in FrameLists, tr \in Transcripts :
                     CallExecuteAgain(vi, fr, tr)

NextReuse ==
    \/ SecondRunCall
    \/ Next

SpecReuse == Init /\ [][NextReuse]_vars

(***************************************************************************)
(* The HTTP layer (app.py).  The development server started by app.run     *)
(* serves each request in a thread of its own; the handlers share the      *)
(* module-level video_agent and take no lock.  A handler is modelled by     *)
(* the agent method it is inside of; what the methods do to the session    *)
(* state is the subject of Spec.                                           *)
(***************************************************************************)
\* the session state and the one thread of control of Spec
session == <<agent, pc, op, args, locals, result, last_plan, run, score_calls,
             trace, now>>

\* POST /api/summarize arrives at thread t: the URL is checked, the video
\* downloaded, frames and transcript extracted
SummarizeBegin(t) ==
    /\ http[t].pc = "idle"
    /\ http' = [http EXCEPT ![t] = [IdleRequest EXCEPT !.pc = "prepare"]]
    /\ UNCHANGED <<video_agent, session>>

\* an early return: a bad URL, a failed download, no frames extracted
SummarizeReject(t) ==
    /\ http[t].pc = "prepare"
    /\ http' = [http EXCEPT ![t] = IdleRequest]
    /\ UNCHANGED <<video_agent, session>>

\* video_agent.execute_analysis(...) is entered on the instance the global
\* is bound to at that moment
SummarizeEnterExecute(t) ==
    /\ http[t].pc = "prepare"
    /\ http' = [http EXCEPT ![t] = [pc |-> "execute_analysis", inside |-> video_agent,
                                     ran_on |-> video_agent, status_of |-> None]]
    /\ UNCHANGED <<video_agent, session>>

\* execute_analysis returns
SummarizeLeaveExecute(t) ==
    /\ http[t].pc = "execute_analysis"
    /\ http' = [http EXCEPT ![t] = [@ EXCEPT !.pc = "get_agent_status",
                                              !.inside = None]]
    /\ UNCHANGED <<video_agent, session>>

\* execute_analysis raises: the handler's except branch returns None
SummarizeExecuteRaises(t) ==
    /\ http[t].pc = "execute_analysis"
    /\ http' = [http EXCEPT ![t] = IdleRequest]
    /\ UNCHANGED <<video_agent, session>>

\* video_agent.get_agent_status() is called on the instance the global is
\* bound to now
SummarizeGetStatus(t) ==
    /\ http[t].pc = "get_agent_status"
    /\ http' = [http EXCEPT ![t] = [@ EXCEPT !.pc = "respond",
                                              !.status_of = video_agent]]
    /\ UNCHANGED <<video_agent, session>>

\* video_agent.agent_id is read and the result returned to summarize_video,
\* which sends the response
SummarizeRespond(t) ==
    /\ http[t].pc = "respond"
    /\ http' = [http EXCEPT ![t] = IdleRequest]
    /\ UNCHANGED <<video_agent, session>>

\* POST /api/agent/reset served by thread t: a new instance is bound to the
\* global
ResetAgent(t) ==
    /\ http[t].pc = "idle"
    /\ video_agent < MaxResets
    /\ video_agent' = video_agent + 1
    /\ UNCHANGED <<http, session>>

NextHttp ==
    \/ \E t \in Threads : SummarizeBegin(t)
    \/ \E t \in Threads : SummarizeReject(t)
    \/ \E t \in Threads : SummarizeEnterExecute(t)
    \/ \E t \in Threads : SummarizeLeaveExecute(t)
    \/ \E t \in Threads : SummarizeExecuteRaises(t)
    \/ \E t \in Threads : SummarizeGetStatus(t)
    \/ \E t \in Threads : SummarizeRespond(t)
    \/ \E t \in Threads : ResetAgent(t)

SpecHttp == Init /\ [][NextHttp]_vars

\* the scorer alone, applied to every text of the model
ScorerCallAny == \E summary \in Drafts, qc \in CriteriaLists :
                     CallQualityCheck(summary, qc)

NextScorer == ScorerCallAny

SpecScorer == Init /\ [][NextScorer]_vars

(***************************************************************************)
(* Vocabulary of the properties.                                           *)
(***************************************************************************)
ExecuteReturned == result.op = "execute_analysis" /\ result.outcome = "returned"

\* the modalities whose input is available, in the order visual, audio, metadata
AvailableModalities(a) ==
    (IF Len(a[2]) > 0 THEN <<"visual">> ELSE <<>>)
        \o (IF a[3] \notin {None, ""} THEN <<"audio">> ELSE <<>>)
        \o <<"metadata">>

\* the signals of a text that the score is made of, each text measured once
TextSignals ==
    { [summary |-> t,
       length |-> Len(t),
       breaks |-> StrCount(t, "\n\n"),
       terms |-> {w \in {"summary", "overview", "key", "main", "insights"} :
                     StrContains(w, StrLower(t))}] : t \in Drafts }

SignalsOf(t) == CHOOSE r \in TextSignals : r.summary = t

\* min(1.0, 0.5 + 0.2 [length in 500..2000] + 0.1 [3 breaks or more] + 0.2 * k / 5)
\* in hundredths
StatedHundredths(t) ==
    LET sig == SignalsOf(t)
        h == 50 + (IF 500 <= sig.length /\ sig.length <= 2000 THEN 20 ELSE 0)
                + (IF sig.breaks >= 3 THEN 10 ELSE 0)
                + 4 * Cardinality(sig.terms)
    IN  IF h > 100 THEN 100 ELSE h

\* the double next to x towards zero, for x > 0
DoubleBelow(x) ==
    LET m == BigSub(x.m, <<1>>)
    IN  IF BigBitLen(m) = MantBits THEN [m |-> m, e |-> x.e]
        ELSE [m |-> BigSub(BigMulSmall(x.m, 2), <<1>>), e |-> x.e - 1]

ScorerStep == Len(score_calls') = Len(score_calls) + 1

(***************************************************************************)
(* Properties.                                                             *)
(***************************************************************************)

\* C1: execute_analysis never raises: whatever the inputs, the cached plan
\* and the pattern of model-call failures, a call of execute_analysis ends by
\* returning a result with a summary, a quality score and a list of completed
\* steps.
C1_ExecuteNeverRaises ==
    result.op = "execute_analysis" =>
        /\ result.outcome = "returned"
        /\ {"summary", "quality_score", "analysis_steps_completed"}
               \subseteq DOMAIN result.value

\* C2: the analysis_steps_completed list of a result returned by
\* execute_analysis is exactly the modalities whose input was available
\* (visual iff frames non-empty, audio iff transcript non-empty, metadata
\* always) in the order visual, audio, metadata.
C2_StepsAreAvailableModalities ==
    ExecuteReturned =>
        result.value.analysis_steps_completed = AvailableModalities(result.args)

\* C2 witness: a run without frames and without transcript returned [metadata],
\* and its arguments had an empty (not absent) transcript
C2_Witness ==
    /\ ExecuteReturned
    /\ result.args[2] = <<>>
    /\ result.args[3] = ""
    /\ result.value.analysis_steps_completed = <<"metadata">>

\* C3: when the planning model call raises, plan_analysis_task returns (does
\* not raise) a fallback plan whose steps are exactly [Visual Analysis,
\* Content Synthesis] and whose inventory is the one of the call's inputs.
C3_FallbackPlanOnFailure ==
    last_plan.outcome = "fallback" =>
        /\ last_plan.returned.priority_steps = <<"Visual Analysis", "Content Synthesis">>
        /\ last_plan.returned.available_data =
               [video_metadata |-> Len(last_plan.args[1]) > 0,
                visual_frames |-> Len(last_plan.args[2]),
                audio_content |-> last_plan.args[3] \notin {None, ""},
                video_duration |-> DictGetOr(last_plan.args[1], "duration", 0)]
        /\ ((pc = "idle" /\ result.op = "plan_analysis_task") =>
                result.outcome = "returned" /\ result.value = last_plan.returned)

\* C3 witness: a direct call with frames, a transcript and metadata whose
\* planning call raised has returned
C3_Witness ==
    /\ last_plan.outcome = "fallback"
    /\ pc = "idle"
    /\ result.op = "plan_analysis_task"
    /\ last_plan.args[1] # <<>>
    /\ last_plan.args[2] # <<>>
    /\ last_plan.args[3] = "spoken words"

\* C4: after every call of plan_analysis_task, on the success path and on the
\* fallback path, task_memory['analysis_plan'] is the plan the call returned.
C4_ReturnedPlanIsStored ==
    last_plan.outcome \in {"created", "fallback"} =>
        /\ DictHas(task_memory, "analysis_plan")
        /\ DictGet(task_memory, "analysis_plan") = last_plan.returned

\* C5: within execute_analysis the refiner is invoked if and only if the
\* score returned by the scorer for the draft is strictly below 0.8; a draft
\* scoring 0.8 or more is returned without a refinement call.
C5_RefineIffBelowThreshold ==
    /\ pc = "refine_model" => DoubleCmp(quality_score, DoubleOfRatio(8, 10)) = -1
    /\ pc = "exec_finish" =>
           (run.refine # "none" <=> DoubleCmp(quality_score, DoubleOfRatio(8, 10)) = -1)
    /\ ExecuteReturned =>
           /\ run.refine # "none" <=>
                  DoubleCmp(result.value.quality_score, DoubleOfRatio(8, 10)) = -1
           /\ run.refine = "none" => result.value.summary = run.draft

\* C5 witness: a draft scoring exactly 0.8 was returned without refinement
C5_Witness ==
    /\ ExecuteReturned
    /\ run.refine = "none"
    /\ DoubleCmp(result.value.quality_score, DoubleOfRatio(8, 10)) = 0

\* C6: when the refinement model call fails, the summary of the result of
\* execute_analysis is exactly the draft that synthesis produced, and the
\* quality score reported is the score of that draft.
C6_FailedRefinementKeepsDraft ==
    /\ (pc = "exec_finish" /\ run.refine = "failed") => synthesis_result = run.draft
    /\ (ExecuteReturned /\ run.refine = "failed") =>
           /\ result.value.summary = run.draft
           /\ \E qc \in CriteriaLists :
                  result.value.quality_score = QualityScore(run.draft, qc)

\* C6 witness: a draft returned by the synthesis call survived a failed refinement
C6_Witness ==
    /\ ExecuteReturned
    /\ run.refine = "failed"
    /\ ~run.synth_failed
    /\ result.value.summary = DraftEdge

\* C7: for every text the score is min(1.0, 0.5 + 0.2 (length in 500..2000)
\* + 0.1 (at least 3 blank-line breaks) + 0.2 * k/5), k the number of lexicon
\* terms occurring case-insensitively: the value a test compares the score
\* with is the double of that decimal number.
C7_ScoreIsStatedFormula ==
    \A i \in 1..Len(score_calls) :
        score_calls[i].score = DoubleOfRatio(StatedHundredths(score_calls[i].summary), 100)

\* C8 as stated: a draft of length 1000 with at least 3 blank-line breaks and
\* exactly the lexicon terms "summary" and "key" scores 0.98.
C8_ScoreIs098 ==
    \A i \in 1..Len(score_calls) :
        LET sig == SignalsOf(score_calls[i].summary)
        IN  (sig.length = 1000 /\ sig.breaks >= 3 /\ sig.terms = {"summary", "key"})
                => score_calls[i].score = DoubleOfRatio(98, 100)

\* C8 as amended: a draft of length 1000 with at least 3 blank-line breaks and
\* exactly the lexicon terms "summary" and "key" scores 0.8799999999999999,
\* the double next below 0.88 (which is what 0.5+0.2+0.1+(2/5)*0.2 sums to).
C8_ScoreIs088 ==
    \A i \in 1..Len(score_calls) :
        LET sig == SignalsOf(score_calls[i].summary)
        IN  (sig.length = 1000 /\ sig.breaks >= 3 /\ sig.terms = {"summary", "key"})
                => score_calls[i].score = DoubleBelow(DoubleOfRatio(88, 100))

\* C8 witness: such a draft has been scored
C8_Witness ==
    \E i \in 1..Len(score_calls) :
        LET sig == SignalsOf(score_calls[i].summary)
        IN  sig.length = 1000 /\ sig.breaks >= 3 /\ sig.terms = {"summary", "key"}

\* C9: the scorer is deterministic and bounded: two calls on the same text,
\* in whatever session state and with whatever criteria, return the same
\* score, and every score is in [0,1].
C9_ScoreDeterministicAndBounded ==
    \A i \in 1..Len(score_calls) :
        /\ DoubleCmp(DoubleOfRatio(0, 1), score_calls[i].score) # 1
        /\ DoubleCmp(score_calls[i].score, DoubleOfRatio(1, 1)) # 1
        /\ \A j \in 1..Len(score_calls) :
               score_calls[i].summary = score_calls[j].summary
                   => score_calls[i].score = score_calls[j].score

\* C9 witness: the same text was scored twice, with different criteria and at
\* different lengths of the log, the second time inside execute_analysis
C9_Witness ==
    \E i, j \in 1..Len(score_calls) :
        /\ i < j
        /\ score_calls[i].summary = score_calls[j].summary
        /\ score_calls[i].quality_criteria # score_calls[j].quality_criteria
        /\ score_calls[i].logged # score_calls[j].logged
        /\ pc = "refine_test"

\* C10 as stated: a call of _quality_check_summary leaves the whole session
\* state (action log, cached plan, analysis cache) unchanged.
C10_ScorerLeavesSessionState ==
    [][ScorerStep => UNCHANGED <<conversation_history, task_memory, analysis_cache>>]_vars

\* C10 as amended: a call of _quality_check_summary leaves the cached plan and
\* the analysis cache unchanged, and appends exactly one entry,
\* QUALITY_ASSESSMENT, to the action log.
C10_ScorerOnlyLogs ==
    [][ScorerStep =>
          /\ UNCHANGED <<task_memory, analysis_cache>>
          /\ Len(conversation_history') = Len(conversation_history) + 1
          /\ SubSeq(conversation_history', 1, Len(conversation_history)) =
                 conversation_history
          /\ conversation_history'[Len(conversation_history')].action =
                 "QUALITY_ASSESSMENT"]_vars

\* C10 witness: the scorer has just run inside execute_analysis, on an agent
\* that holds a plan and a cached analysis
C10_Witness ==
    /\ pc = "refine_test"
    /\ score_calls # <<>>
    /\ task_memory # <<>>
    /\ analysis_cache # <<>>
    /\ conversation_history[Len(conversation_history)].action = "QUALITY_ASSESSMENT"

(***************************************************************************)
(* Vocabulary of the properties of the action log and of a run.            *)
(***************************************************************************)
IsPrefix(a, b) == Len(a) <= Len(b) /\ SubSeq(b, 1, Len(a)) = a

\* the entries logged by the current or last operation
OperationLog == SubSeq(conversation_history, trace.log_start + 1,
                       Len(conversation_history))

ActionsOf(log) == [i \in 1..Len(log) |-> log[i].action]

\* Python's < on two strings made of digits and colons
TimestampChars == "0123456789:"

RECURSIVE StrLess(_, _)
StrLess(a, b) ==
    IF b = "" THEN FALSE
    ELSE IF a = "" THEN TRUE
    ELSE LET ca == StrFind(TimestampChars, CharAt(a, 1), 1)
             cb == StrFind(TimestampChars, CharAt(b, 1), 1)
         IN  IF ca # cb THEN ca < cb
             ELSE StrLess(SubSeq(a, 2, Len(a)), SubSeq(b, 2, Len(b)))

InExecute == op = "execute_analysis" \/ result.op = "execute_analysis"

(***************************************************************************)
(* C11: the action log of an agent is append-only: over any sequence of    *)
(* plan_analysis_task, execute_analysis and get_agent_status calls, every  *)
(* step leaves the earlier log as a prefix of the later log, so no entry   *)
(* is removed, reordered or modified.                                      *)
(***************************************************************************)
C11_LogAppendOnly ==
    [][IsPrefix(conversation_history, conversation_history')]_vars

\* C11 witness: a run of execute_analysis has returned on an agent whose log
\* already held the two entries of an earlier plan_analysis_task call
C11_Witness ==
    /\ ExecuteReturned
    /\ trace.log_start = 2
    /\ conversation_history[1].action = "PLANNING"
    /\ Len(conversation_history) > 6

(***************************************************************************)
(* C12: over a run of execute_analysis the log is strictly time-ordered:   *)
(* of two consecutive entries of the run, the later one has the strictly   *)
(* greater timestamp.                                                      *)
(***************************************************************************)
C12_TimestampsStrictlyIncrease ==
    InExecute =>
        \A i \in 1..(Len(OperationLog) - 1) :
            StrLess(OperationLog[i].timestamp, OperationLog[i + 1].timestamp)

\* the call sites whose model call has returned or raised in the operation
SitesCalled == [i \in 1..Len(trace.model_calls) |-> trace.model_calls[i].site]

(***************************************************************************)
(* C13: execute_analysis invokes the planner exactly when the session      *)
(* state holds no plan at entry; with a plan cached, the run makes no      *)
(* planning model call and leaves the cached plan unchanged throughout.    *)
(***************************************************************************)
C13_PlannerOnlyWithoutCachedPlan ==
    [][/\ (op = "none" /\ op' = "execute_analysis") =>
              (pc' = "plan_model" <=> ~DictHas(task_memory, "analysis_plan"))
       /\ op = "execute_analysis" => pc' # "plan_model"
       /\ (op = "execute_analysis" /\ run.had_plan) =>
              /\ task_memory' = task_memory
              /\ \A i \in 1..Len(trace'.model_calls) :
                     trace'.model_calls[i].site # "planning"]_vars

\* C13 witness: a run on an agent that held a plan from an earlier
\* plan_analysis_task call has returned
C13_Witness ==
    /\ ExecuteReturned
    /\ run.had_plan
    /\ trace.log_start = 2
    /\ DictHas(task_memory, "analysis_plan")

\* the stages of a run in their fixed order, by the log entry that opens each
StageMarkers == <<"EXECUTION_START", "PLANNING", "VISUAL_ANALYSIS", "AUDIO_ANALYSIS",
                  "METADATA_ANALYSIS", "SYNTHESIS", "QUALITY_CHECK", "REFINEMENT",
                  "EXECUTION_COMPLETE">>

CallSites == <<"planning", "visual", "audio", "synthesis", "refinement">>

\* the position of x in the sequence order, 0 if it is not in it
RankIn(order, x) ==
    IF \E i \in 1..Len(order) : order[i] = x
    THEN CHOOSE i \in 1..Len(order) : order[i] = x
    ELSE 0

\* the members of seq that occur in order appear in seq once each, in order
InFixedOrder(order, seq) ==
    \A i, j \in 1..Len(seq) :
        (i < j /\ RankIn(order, seq[i]) > 0 /\ RankIn(order, seq[j]) > 0) =>
            RankIn(order, seq[i]) < RankIn(order, seq[j])

\* a run of execute_analysis has ended, by return or by an exception
ExecuteEnded == result.op = "execute_analysis" /\ result.outcome # "none"

\* the stages and model calls of the run so far are in the fixed order,
\* none twice
C14_StagesInOrder ==
    InExecute =>
        /\ InFixedOrder(StageMarkers, ActionsOf(OperationLog))
        /\ InFixedOrder(CallSites, SitesCalled)
        /\ \A i \in 1..Len(SitesCalled) : RankIn(CallSites, SitesCalled[i]) > 0

(***************************************************************************)
(* C14: every run of execute_analysis passes through its stages in the     *)
(* fixed order planning (if needed), visual, audio, metadata, synthesis,   *)
(* scoring, optional refinement, done; no stage is entered twice and no    *)
(* model call is made twice, and the run always ends in the done state:    *)
(* it returns its result after logging EXECUTION_COMPLETE.                 *)
(***************************************************************************)
C14_StagesInOrderToDone ==
    /\ C14_StagesInOrder
    /\ ExecuteEnded =>
           /\ result.outcome = "returned"
           /\ conversation_history[Len(conversation_history)].action =
                  "EXECUTION_COMPLETE"

(***************************************************************************)
(* C15: the session state of an agent instance is never accessed by two    *)
(* orchestration runs at overlapping times: no two request threads are     *)
(* inside execute_analysis of the same instance at once.                   *)
(***************************************************************************)
C15_NoOverlappingRuns ==
    \A t1, t2 \in Threads :
        (/\ t1 # t2
         /\ http[t1].pc = "execute_analysis"
         /\ http[t2].pc = "execute_analysis") => http[t1].inside # http[t2].inside

(***************************************************************************)
(* C16: after execute_analysis returns, the analysis cache agrees with the *)
(* modality mapping of the run: for every modality in the completed list,  *)
(* one whose model call failed included, the cache holds exactly the       *)
(* record produced in this run, and it holds no record for a modality the  *)
(* run did not execute.                                                    *)
(***************************************************************************)
C16_CacheAgreesWithMapping ==
    ExecuteReturned =>
        /\ \A i \in 1..Len(result.value.analysis_steps_completed) :
               LET modality == result.value.analysis_steps_completed[i]
               IN  /\ DictHas(analysis_cache, modality)
                   /\ DictGet(analysis_cache, modality) = DictGet(run.mapping, modality)
        /\ \A i \in 1..Len(analysis_cache) : DictHas(run.mapping, analysis_cache[i].key)

\* the model calls of the visual and audio runners that have raised in the
\* current or last run
FailedRunnerCalls ==
    {c \in {trace.model_calls[i] : i \in 1..Len(trace.model_calls)} :
        c.site \in {"visual", "audio"} /\ ~c.ok}

\* the degraded record the runner of a modality returns for error text err
DegradedRecord(modality, err) ==
    [analysis |-> IF modality = "visual" THEN "Visual analysis unavailable"
                  ELSE "Audio analysis unavailable",
     error |-> err]

(***************************************************************************)
(* C17: when the model call of the visual or audio runner fails, the       *)
(* runner returns the degraded record (the fixed narrative 'Visual         *)
(* analysis unavailable' / 'Audio analysis unavailable' and the error      *)
(* text) instead of raising; the run goes on through the remaining steps   *)
(* and synthesis to its return, and the failed modality is in the mapping  *)
(* passed to synthesis and in the completed-steps list.                    *)
(***************************************************************************)
C17_DegradedRecordOnRunnerFailure ==
    InExecute =>
        \A c \in FailedRunnerCalls :
            /\ op = "execute_analysis" =>
                   /\ DictHas(analysis_results, c.site)
                   /\ DictGet(analysis_results, c.site) = DegradedRecord(c.site, c.error)
            /\ pc \in {"quality_check", "refine_test", "refine_model", "exec_finish"} =>
                   \E i \in 1..Len(SitesCalled) : SitesCalled[i] = "synthesis"
            /\ ExecuteEnded =>
                   /\ result.outcome = "returned"
                   /\ DictGet(run.mapping, c.site) = DegradedRecord(c.site, c.error)
                   /\ \E i \in 1..Len(result.value.analysis_steps_completed) :
                          result.value.analysis_steps_completed[i] = c.site
                   /\ \E i \in 1..Len(SitesCalled) : SitesCalled[i] = "synthesis"

\* C17 witness: a run in which both the visual and the audio model call
\* raised has returned a summary
C17_Witness ==
    /\ ExecuteReturned
    /\ {c.site : c \in FailedRunnerCalls} = {"visual", "audio"}
    /\ result.value.analysis_steps_completed = <<"visual", "audio", "metadata">>
    /\ ~run.synth_failed

\* the subsequence of the actions in seq that are error entries
ErrorActions == {"PLAN_ERROR", "VISUAL_ERROR", "AUDIO_ERROR", "SYNTHESIS_ERROR",
                 "REFINEMENT_ERROR"}

IsErrorAction(a) == a \in ErrorActions

\* the error entry of a call site
ErrorActionOf(site) ==
    CASE site = "planning" -> "PLAN_ERROR"
      [] site = "visual" -> "VISUAL_ERROR"
      [] site = "audio" -> "AUDIO_ERROR"
      [] site = "synthesis" -> "SYNTHESIS_ERROR"
      [] site = "refinement" -> "REFINEMENT_ERROR"

\* the actions of the entries a step appends to the log
AppendedActions ==
    [i \in 1..(Len(conversation_history') - Len(conversation_history)) |->
        conversation_history'[Len(conversation_history) + i].action]

\* a step in which a model call returns or raises
ModelCallStep == Len(trace'.model_calls) = Len(trace.model_calls) + 1

LastModelCall == trace'.model_calls[Len(trace'.model_calls)]

(***************************************************************************)
(* C18: every model-call failure is logged: a model call that raises at    *)
(* the planning, visual, audio, synthesis or refinement call site appends  *)
(* exactly one error entry, that of its stage, to the action log, and no   *)
(* error entry is appended for a call that succeeded or by any other step, *)
(* a skipped step included.                                                *)
(***************************************************************************)
C18_FailuresLoggedOnce ==
    [][IF ModelCallStep /\ ~LastModelCall.ok
       THEN SelectSeq(AppendedActions, IsErrorAction) =
                <<ErrorActionOf(LastModelCall.site)>>
       ELSE SelectSeq(AppendedActions, IsErrorAction) = <<>>]_vars

\* C18 witness: a run in which the visual, audio, synthesis and refinement
\* calls all raised has returned, with the four error entries in its log
C18_Witness ==
    /\ ExecuteReturned
    /\ SelectSeq(ActionsOf(OperationLog), IsErrorAction) =
           <<"VISUAL_ERROR", "AUDIO_ERROR", "SYNTHESIS_ERROR", "REFINEMENT_ERROR">>
    /\ Len(trace.model_calls) = 4

\* execute_analysis is past line 123: its local plan is bound
PlanLoaded ==
    pc \in {"exec_steps", "visual_model", "audio_model", "synth_model",
            "quality_check", "refine_test", "refine_model", "exec_finish"}

CanonicalSteps ==
    <<"Visual Analysis", "Audio Analysis", "Metadata Analysis", "Content Synthesis">>

(***************************************************************************)
(* C19: every plan held in the session state has exactly the four          *)
(* canonical steps Visual Analysis, Audio Analysis, Metadata Analysis,     *)
(* Content Synthesis in that order, whatever text the model returned and   *)
(* whatever inputs were available; the plan the executor iterates is       *)
(* never the two-step fallback plan.                                       *)
(***************************************************************************)
C19_StoredPlanIsCanonical ==
    /\ DictHas(task_memory, "analysis_plan") =>
           DictGet(task_memory, "analysis_plan").priority_steps = CanonicalSteps
    /\ PlanLoaded =>
           /\ plan.priority_steps = CanonicalSteps
           /\ plan.plan_text # "Fallback analysis plan"

\* C19 witness: the executor iterates a plan made from a text that names
\* only the audio, for a call that had neither frames nor a transcript
C19_Witness ==
    /\ pc = "exec_steps"
    /\ step_idx = 3
    /\ plan.plan_text = "Only the audio matters"
    /\ plan.available_data.visual_frames = 0
    /\ ~plan.available_data.audio_content

\* a call of plan_analysis_task, made by a caller or by execute_analysis,
\* has just returned
PlanJustReturned ==
    /\ last_plan.outcome \in {"created", "fallback"}
    /\ \/ pc = "idle" /\ result.op = "plan_analysis_task"
       \/ pc = "exec_load_plan"

\* the log entries of that call: those from its PLANNING entry on
PlanCallActions ==
    LET actions == ActionsOf(OperationLog)
        first == CHOOSE i \in 1..Len(actions) : actions[i] = "PLANNING"
    IN  SubSeq(actions, first, Len(actions))

\* C20 as stated: each call of plan_analysis_task appends exactly one entry
\* to the action log, on the success path and on the fallback path alike.
C20_PlanAppendsOneEntry ==
    PlanJustReturned => Len(PlanCallActions) = 1

\* C20 as amended: each call of plan_analysis_task appends exactly two
\* entries to the action log: PLANNING at entry, then PLAN_CREATED on the
\* success path or PLAN_ERROR on the fallback path.
C20_PlanAppendsTwoEntries ==
    PlanJustReturned =>
        PlanCallActions = <<"PLANNING", IF last_plan.outcome = "created"
                                        THEN "PLAN_CREATED" ELSE "PLAN_ERROR">>

\* C20 witness: a direct call of plan_analysis_task has returned the
\* fallback plan on an agent whose log already held entries
C20_Witness ==
    /\ PlanJustReturned
    /\ pc = "idle"
    /\ last_plan.outcome = "fallback"
    /\ trace.log_start > 0
    /\ Len(conversation_history) = trace.log_start + 2

\* label is the label of position i (from 0) with a timestamp that is
\* i * duration / n to one decimal: a multiple of 1/10 at most 1/20 away
LabelStates(label, i, duration, n) ==
    \E tenths \in {(10 * i * duration) \div n, (10 * i * duration) \div n + 1} :
        /\ 2 * n * tenths - 20 * i * duration \in (0 - n)..n
        /\ label = "Frame " \o IntToStr(i + 1) \o " (timestamp: "
                       \o FormatTenths(tenths) \o "s):"

\* the visual runner has been entered in the current or last run
VisualRunnerEntered ==
    \E i \in 1..Len(OperationLog) : OperationLog[i].action = "VISUAL_ANALYSIS"

(***************************************************************************)
(* C21: for a frame set of n frames the visual runner sends exactly the    *)
(* first min(n, 6) frames, in their original order, each preceded by a     *)
(* label whose timestamp for position i (from 0) is i * duration / n, n    *)
(* the number of frames supplied; no frame beyond the sixth is sent.       *)
(***************************************************************************)
C21_FirstSixFramesLabelled ==
    (InExecute /\ VisualRunnerEntered) =>
        LET fr == run.args[2]
            duration == DictGetOr(run.args[1], "duration", 0)
            n == Len(fr)
            sent == trace.visual_content
        IN  /\ Len(sent) = (IF n < 6 THEN n ELSE 6)
            /\ \A k \in 1..Len(sent) :
                   /\ sent[k].frame = fr[k]
                   /\ LabelStates(sent[k].label, k - 1, duration, n)

\* C21 witness: a run given 20 frames of a 7-second video has returned; six
\* frames were sent, the fourth labelled 1.0s for 3 * 7 / 20 = 1.05
C21_Witness ==
    /\ ExecuteReturned
    /\ Len(run.args[2]) = 20
    /\ Len(trace.visual_content) = 6
    /\ trace.visual_content[4].label = "Frame 4 (timestamp: 1.0s):"
    /\ trace.visual_content[6].frame = 6

\* the model calls of a call site that have returned or raised
CallsAt(site) == SelectSeq(trace.model_calls, LAMBDA c : c.site = site)

(***************************************************************************)
(* C22: whenever the synthesis model call fails, execute_analysis goes on  *)
(* to scoring with the fixed failure narrative as the draft; the narrative *)
(* scores below 0.8, so the refiner is always invoked on it; the final     *)
(* summary is the refiner's output if the refinement call succeeds and the *)
(* fixed failure narrative if it fails.                                    *)
(***************************************************************************)
C22_FailedSynthesisIsRefined ==
    (InExecute /\ run.synth_failed) =>
        /\ run.draft = "Summary generation failed. Please try again."
        /\ pc = "quality_check" => synthesis_result = run.draft
        /\ pc \in {"refine_test", "refine_model", "exec_finish"} =>
               DoubleCmp(quality_score, DoubleOfRatio(8, 10)) = -1
        /\ pc = "exec_finish" => run.refine \in {"refined", "failed"}
        /\ ExecuteEnded =>
               /\ result.outcome = "returned"
               /\ DoubleCmp(result.value.quality_score, DoubleOfRatio(8, 10)) = -1
               /\ Len(CallsAt("refinement")) = 1
               /\ IF CallsAt("refinement")[1].ok
                  THEN result.value.summary = CallsAt("refinement")[1].text
                  ELSE result.value.summary = run.draft

\* C22 witness: a run whose synthesis call raised has returned the text of
\* a successful refinement call
C22_Witness ==
    /\ ExecuteReturned
    /\ run.synth_failed
    /\ run.refine = "refined"
    /\ result.value.summary = DraftFull
    /\ result.value.summary # run.draft

(***************************************************************************)
(* C23: the plan consulted by an execute_analysis call describes that      *)
(* call's own inputs: its availability inventory (metadata present, frame  *)
(* count, has-audio, duration) matches the video info, frames and          *)
(* transcript passed to that call, on a second or later call with          *)
(* different inputs too.                                                   *)
(***************************************************************************)
C23_PlanDescribesOwnInputs ==
    (op = "execute_analysis" /\ PlanLoaded) =>
        /\ plan.available_data.video_metadata = (video_info # <<>>)
        /\ plan.available_data.visual_frames = Len(frames)
        /\ plan.available_data.audio_content = (audio_transcript \notin {None, ""})
        /\ plan.available_data.video_duration = DictGetOr(video_info, "duration", 0)

\* the log as it was when the result of the run that has returned was
\* assembled: everything but the run's closing entry
LogAtAssembly == SubSeq(conversation_history, 1, Len(conversation_history) - 1)

\* the last min(10, length) entries of the log at result assembly
TraceWindow ==
    LET length == Len(LogAtAssembly)
        count == IF length < 10 THEN length ELSE 10
    IN  [i \in 1..count |-> LogAtAssembly[length - count + i]]

(***************************************************************************)
(* C24: the reasoning trace in the result of execute_analysis lists, in    *)
(* log order, the action names of exactly the last min(10, log length)     *)
(* log entries as of result assembly; it is assembled before               *)
(* EXECUTION_COMPLETE is logged, so the run's own EXECUTION_COMPLETE is    *)
(* not in its trace; on a reused agent the trace can contain actions       *)
(* logged by an earlier run.                                               *)
(***************************************************************************)
C24_TraceIsLastTenActions ==
    ExecuteReturned =>
        /\ result.value.agent_reasoning =
               "Agent completed analysis using steps: "
                   \o StrJoin(" -> ", ActionsOf(TraceWindow))
        /\ conversation_history[Len(conversation_history)].action = "EXECUTION_COMPLETE"
        /\ \A i \in (trace.log_start + 1)..Len(LogAtAssembly) :
               LogAtAssembly[i].action # "EXECUTION_COMPLETE"

\* C24 witness: a second run on an agent has returned; the log held more
\* than ten entries at assembly, and the trace begins with entries of the
\* first run, its EXECUTION_COMPLETE among them
C24_Witness ==
    /\ ExecuteReturned
    /\ trace.log_start > 0
    /\ Len(LogAtAssembly) > 10
    /\ Len(LogAtAssembly) - 10 < trace.log_start
    /\ conversation_history[trace.log_start].action = "EXECUTION_COMPLETE"
    /\ StrContains("EXECUTION_COMPLETE -> EXECUTION_START", result.value.agent_reasoning)

====
